---------------------------- MODULE Spec2Model ----------------------------
(***************************************************************************)
(* Media upload, ordering and deletion of the marketplace backend          *)
(* (backend/app/routes.py, backend/app/models.py).                         *)
(*                                                                         *)
(* A character string of the program is a sequence of tokens: "." is the   *)
(* dot, every other token is a run of characters without a dot.  Str joins *)
(* a token sequence into one string, which is what the program's tables    *)
(* and comparisons see.                                                    *)
(***************************************************************************)
EXTENDS Integers, Sequences, FiniteSets, TLC

\* ------------------------------------------------------------------ bounds
\* Spec: two identities, two listings
MaxUsers == 2
MaxListings == 2
MaxMedia == 2
MaxDisk == 1
MaxOrder == 2
MaxFiles == 1
MaxIds == 2
MaxClientMedia == 1
MaxClientOrder == 0

\* SpecOwner: one identity, longer requests and more media
OwnerListings == 1
OwnerMedia == 3
OwnerDisk == 3
OwnerOrder == 3
OwnerFiles == 2
OwnerIds == 3
OwnerClientMedia == 1

\* ----------------------------------------------------------------- strings
Dot == "."

\* str.lower() on one token
LowerTok(t) ==
    CASE t = "PNG" -> "png"
      [] t = "JPG" -> "jpg"
      [] t = "JPEG" -> "jpeg"
      [] t = "GIF" -> "gif"
      [] t = "MP4" -> "mp4"
      [] t = "MOV" -> "mov"
      [] t = "Mov" -> "mov"
      [] t = "AVI" -> "avi"
      [] t = "TXT" -> "txt"
      [] t = "X" -> "x"
      [] OTHER -> t

Lower(s) == [i \in 1..Len(s) |-> LowerTok(s[i])]

RECURSIVE Str(_)
Str(s) == IF s = <<>> THEN "" ELSE Head(s) \o Str(Tail(s))

\* index of the last dot of s, 0 when s has none
LastDot(s) ==
    IF \E i \in 1..Len(s) : s[i] = Dot
    THEN CHOOSE i \in 1..Len(s) : s[i] = Dot /\ \A j \in (i+1)..Len(s) : s[j] # Dot
    ELSE 0

\* filename.rsplit('.', 1)[1]; only used on a name that holds a dot
RSplitExt(s) == SubSeq(s, LastDot(s) + 1, Len(s))

\* os.path.splitext(filename)[1]: the last dot and what follows it, empty
\* when the name has no dot or only leading dots before it
SplitExt(s) ==
    LET d == LastDot(s)
    IN  IF d = 0 \/ \A i \in 1..(d-1) : s[i] = Dot THEN <<>> ELSE SubSeq(s, d, Len(s))

\* str.lstrip("."), str.strip("._")
RECURSIVE LStrip(_, _)
LStrip(s, chars) ==
    IF s # <<>> /\ Head(s) \in chars THEN LStrip(Tail(s), chars) ELSE s

RECURSIVE RStrip(_, _)
RStrip(s, chars) ==
    IF s # <<>> /\ s[Len(s)] \in chars THEN RStrip(SubSeq(s, 1, Len(s) - 1), chars) ELSE s

\* tokens made only of characters outside [A-Za-z0-9_.-]
NonAscii == {"日"}

RECURSIVE DropNonAscii(_)
DropNonAscii(s) ==
    IF s = <<>> THEN <<>>
    ELSE IF Head(s) \in NonAscii THEN DropNonAscii(Tail(s))
    ELSE <<Head(s)>> \o DropNonAscii(Tail(s))

secure_filename(s) == RStrip(LStrip(DropNonAscii(s), {Dot, "_"}), {Dot, "_"})

\* ---------------------------------------------------------- classification
ALLOWED_EXTENSIONS == {"png", "jpg", "jpeg", "gif", "mp4", "mov", "avi"}

allowed_file(filename) ==
    /\ \E i \in 1..Len(filename) : filename[i] = Dot
    /\ Str(Lower(RSplitExt(filename))) \in ALLOWED_EXTENSIONS

get_mimetype(filename) ==
    LET file_extension == Str(Lower(SplitExt(filename)))
        bare == Str(LStrip(Lower(SplitExt(filename)), {Dot}))
    IN  IF file_extension \in {".mp4", ".avi", ".mov", ".webm", ".flv"}
        THEN IF file_extension = ".mov" THEN "video/quicktime" ELSE "video/" \o bare
        ELSE IF file_extension \in {".jpg", ".jpeg", ".png", ".gif", ".bmp", ".webp", ".tiff", ".tif"}
        THEN IF file_extension = ".jpeg" THEN "image/jpeg"
             ELSE IF file_extension \in {".tiff", ".tif"} THEN "image/tiff"
             ELSE "image/" \o bare
        ELSE IF file_extension \in {".mp3", ".wav", ".ogg", ".flac"}
        THEN "audio/" \o bare
        ELSE IF file_extension = ".pdf" THEN "application/pdf"
        ELSE "application/octet-stream"

\* mimetype.startswith('image/') / startswith('video/'), on the values
\* get_mimetype can return
ImageMimes == {"image/jpg", "image/jpeg", "image/png", "image/gif", "image/bmp", "image/webp", "image/tiff"}
VideoMimes == {"video/mp4", "video/avi", "video/quicktime", "video/webm", "video/flv"}

MediaTypeOf(mimetype) ==
    IF mimetype \in ImageMimes THEN "image"
    ELSE IF mimetype \in VideoMimes THEN "video"
    ELSE "unsupported"

\* ------------------------------------------------------------------- state
VARIABLES
    users,      \* ids of the rows of the User table
    listings,   \* rows of the Listing table: [id, user_id]
    media,      \* rows of the Media table
    files,      \* files under MEDIA_FOLDER: [listing_id, media_type, filename]
    response,   \* the last request served and its answer
    inflight    \* per worker: the request it is serving, between two of its
                \* statements, or the one it served last

vars == <<users, listings, media, files, response, inflight>>

\* a nullable integer column: NoOrder is NULL/None, Some(n) the integer n
NoOrder == <<>>
Some(n) == <<n>>

Max(S) == CHOOSE n \in S : \A k \in S : k <= n

\* an INTEGER PRIMARY KEY of the configured SQLite database: largest id + 1
NextId(ids) == IF ids = {} THEN 1 ELSE Max(ids) + 1

\* Listing.query.get(listing_id); <<>> stands for None
GetListing(listing_id) ==
    IF \E l \in listings : l.id = listing_id
    THEN <<CHOOSE l \in listings : l.id = listing_id>>
    ELSE <<>>

\* Media.query.get(media_id)
GetMedia(media_id) ==
    IF \E m \in media : m.id = media_id
    THEN <<CHOOSE m \in media : m.id = media_id>>
    ELSE <<>>

\* os.path.join(MEDIA_FOLDER, str(listing_id), media_type, filename)
MediaPath(listing_id, media_type, filename) ==
    [listing_id |-> listing_id, media_type |-> media_type, filename |-> filename]

\* the answer of a request and what it logged; every field is present for
\* every operation: created are the ids of the media an upload returns, saved
\* the number of files it wrote, rejected the file name its error message
\* quotes, skipped the number of ids a reorder reported as not of the listing,
\* file_case what delete_media found on disk, cascaded the number of Media rows
\* a deletion removed by cascade
Answer(op, status, message, principal, listing_id) ==
    [op |-> op, status |-> status, message |-> message, principal |-> principal,
     listing_id |-> listing_id, media_id |-> 0, created |-> <<>>, saved |-> 0,
     rejected |-> <<>>, updated_count |-> 0, skipped |-> 0, file_case |-> "none",
     cascaded |-> 0]

\* workers serving requests side by side
RaceSlots == 2

Slots == 1..RaceSlots

\* a worker's request: todo the files still to process, pending the Media
\* object built for the current file and not yet added, flushed the rows
\* added and flushed in the open transaction, snapshot the rows loaded into
\* the session by a reorder
Idle ==
    [pc |-> "idle", op |-> "none", principal |-> 0, listing_id |-> 0, todo |-> <<>>,
     pending |-> <<>>, flushed |-> {}, created |-> <<>>, snapshot |-> {},
     media_ids |-> <<>>]

Init ==
    /\ users = {}
    /\ listings = {}
    /\ media = {}
    /\ files = {}
    /\ response = Answer("init", 0, "", 0, 0)
    /\ inflight = [s \in Slots |-> Idle]

\* ------------------------------------------------------------------ users
\* POST /register with well-formed, unused username and email
register ==
    /\ users' = users \cup {NextId(users)}
    /\ response' = Answer("register", 201, "", NextId(users), 0)
    /\ UNCHANGED <<listings, media, files>>

\* the rows left after session.delete(...) of the given listings: the
\* relationship Listing.media cascades "all, delete-orphan"
\* mutant: deleting a parent leaves the Media rows in place
NoCascade(gone) == media

CascadeMedia(gone) == {m \in media : m.listing_id \notin {l.id : l \in gone}}

\* DELETE /user
delete_user(current_user_id) ==
    IF current_user_id \notin users
    THEN /\ response' = Answer("delete_user", 404, "", current_user_id, 0)
         /\ UNCHANGED <<users, listings, media, files>>
    ELSE LET gone == {l \in listings : l.user_id = current_user_id}
         IN  /\ users' = users \ {current_user_id}
             /\ listings' = listings \ gone
             /\ media' = CascadeMedia(gone)
             /\ response' = [Answer("delete_user", 204, "", current_user_id, 0)
                               EXCEPT !.cascaded = Cardinality(media \ CascadeMedia(gone))]
             /\ UNCHANGED files

\* --------------------------------------------------------------- listings
\* the media entries a client may put in the body of POST /listings: one
\* that lacks a required key, and complete ones with a client-chosen order
\* the Media rows create_listing adds for data['media'], in order
RECURSIVE ClientRows(_, _, _)
ClientRows(listing_id, media_list, rows) ==
    IF media_list = <<>> THEN rows
    ELSE LET media_data == Head(media_list)
             new_media ==
                 [id |-> NextId({m.id : m \in rows}),
                  listing_id |-> listing_id,
                  filename |-> <<"telescope_main", Dot, "jpg">>,
                  file_extension |-> "jpg",
                  mimetype |-> "image/jpeg",
                  media_type |-> "photo",
                  order |-> media_data.order]
         IN  ClientRows(listing_id, Tail(media_list),
                        IF media_data.complete THEN rows \cup {new_media} ELSE rows)

\* POST /listings
create_listing(current_user_id, has_required, media_list) ==
    IF ~has_required
    THEN /\ response' = Answer("create_listing", 400, "", current_user_id, 0)
         /\ UNCHANGED <<users, listings, media, files>>
    ELSE LET new_listing == [id |-> NextId({l.id : l \in listings}), user_id |-> current_user_id]
             rows == ClientRows(new_listing.id, media_list, media)
         IN  /\ listings' = listings \cup {new_listing}
             /\ media' = rows
             /\ response' = Answer("create_listing", 201, "", current_user_id, new_listing.id)
             /\ UNCHANGED <<users, files>>

\* DELETE /listings/<listing_id>
delete_listing(current_user_id, listing_id) ==
    LET found == GetListing(listing_id)
    IN  IF found = <<>>
        THEN /\ response' = Answer("delete_listing", 404, "", current_user_id, listing_id)
             /\ UNCHANGED <<users, listings, media, files>>
        ELSE IF found[1].user_id # current_user_id
        THEN /\ response' = Answer("delete_listing", 403, "", current_user_id, listing_id)
             /\ UNCHANGED <<users, listings, media, files>>
        ELSE /\ listings' = listings \ {found[1]}
             /\ media' = CascadeMedia({found[1]})
             /\ response' = [Answer("delete_listing", 204, "", current_user_id, listing_id)
                               EXCEPT !.cascaded = Cardinality(media \ CascadeMedia({found[1]}))]
             /\ UNCHANGED <<users, files>>

\* ------------------------------------------------------------ media upload
\* uuid.uuid4(): a name no file and no row carries
UsedNames(rows, disk) ==
    {m.filename[1] : m \in rows} \cup {f.filename[1] : f \in disk}

uuid4(rows, disk) ==
    LET n == CHOOSE k \in 1..(Cardinality(rows) + Cardinality(disk) + 1) :
                 /\ ("u" \o ToString(k)) \notin UsedNames(rows, disk)
                 /\ \A j \in 1..(k-1) : ("u" \o ToString(j)) \in UsedNames(rows, disk)
    IN  "u" \o ToString(n)

\* db.session.query(db.func.max(Media.order)).filter_by(listing_id=...).scalar()
MaxOrderOf(rows, listing_id) ==
    LET orders == {m.order[1] : m \in {r \in rows : r.listing_id = listing_id /\ r.order # NoOrder}}
    IN  IF orders = {} THEN NoOrder ELSE Some(Max(orders))

\* mutant: the next order is the number of rows the listing has
NewOrderCount(rows, listing_id) == Cardinality({m \in rows : m.listing_id = listing_id})

\* mutant: the maximum is read from the committed table, not from the session
\* that holds the rows flushed so far
NewOrderStale(rows, listing_id) ==
    LET max_order_result == MaxOrderOf(media, listing_id)
    IN  (IF max_order_result # NoOrder THEN max_order_result[1] ELSE -1) + 1

NewOrder(rows, listing_id) ==
    LET max_order_result == MaxOrderOf(rows, listing_id)
    IN  (IF max_order_result # NoOrder THEN max_order_result[1] ELSE -1) + 1

\* the request's progress: the session's rows, the disk, the rows it created
\* and, once it has returned early, its answer (status 0: still running)
Abort(st, status, message) == [st EXCEPT !.status = status, !.message = message]

\* mutant: a file with a disallowed extension is passed over
RejectSkip(st, status, message, filename) == st

Reject(st, status, message, filename) ==
    [st EXCEPT !.status = status, !.message = message, !.rejected = filename]

\* one turn of the loop over uploaded_files
UploadFile(listing_id, file, save_ok, st) ==
    IF file = <<>>
    THEN Abort(st, 400, "No selected file for one of the uploads")
    ELSE IF ~allowed_file(file)
    THEN Reject(st, 415, "Unsupported file", file)
    ELSE LET original_filename == secure_filename(file)
         IN  IF LastDot(original_filename) = 0
             THEN Abort(st, 500, "IndexError")
             ELSE LET file_extension == Str(Lower(RSplitExt(original_filename)))
                      mimetype == get_mimetype(file)
                      media_type == MediaTypeOf(mimetype)
                      unique_filename == <<uuid4(st.rows, st.disk), Dot, file_extension>>
                      file_path == MediaPath(listing_id, media_type, unique_filename)
                      new_media ==
                          [id |-> NextId({m.id : m \in st.rows}),
                           listing_id |-> listing_id,
                           filename |-> unique_filename,
                           file_extension |-> file_extension,
                           mimetype |-> mimetype,
                           media_type |-> media_type,
                           order |-> Some(NewOrder(st.rows, listing_id))]
                  IN  IF media_type = "unsupported"
                      THEN Abort(st, 415, "Unsupported file type")
                      ELSE IF ~save_ok
                      THEN Abort(st, 500, "StorageError")
                      ELSE [st EXCEPT !.rows = st.rows \cup {new_media},
                                      !.disk = st.disk \cup {file_path},
                                      !.created = Append(st.created, new_media.id)]

RECURSIVE UploadLoop(_, _, _, _, _)
UploadLoop(listing_id, uploaded_files, save_fails_at, i, st) ==
    IF st.status # 0 THEN st
    ELSE IF i > Len(uploaded_files) THEN [st EXCEPT !.status = 201, !.message = "Files uploaded successfully!"]
    ELSE UploadLoop(listing_id, uploaded_files, save_fails_at, i + 1,
                    UploadFile(listing_id, uploaded_files[i], save_fails_at # i, st))

UploadStart ==
    [status |-> 0, message |-> "", rows |-> media, disk |-> files, created |-> <<>>,
     rejected |-> <<>>]

\* mutant: the files of the request are looked at before the ownership check
UploadOutcomeFilesFirst(current_user_id, listing_id, uploaded_files, save_fails_at) ==
    LET listing == GetListing(listing_id)
    IN  IF current_user_id \notin users
        THEN Abort(UploadStart, 404, "User not found")
        ELSE IF listing = <<>>
        THEN Abort(UploadStart, 404, "Listing not found")
        ELSE IF uploaded_files = <<>>
        THEN Abort(UploadStart, 400, "No file part in the request")
        ELSE IF listing[1].user_id # current_user_id
        THEN Abort(UploadStart, 403, "Unauthorized: You do not own this listing")
        ELSE UploadLoop(listing_id, uploaded_files, save_fails_at, 1, UploadStart)

\* the whole handler's outcome
UploadOutcome(current_user_id, listing_id, uploaded_files, save_fails_at) ==
    LET listing == GetListing(listing_id)
    IN  IF current_user_id \notin users
        THEN Abort(UploadStart, 404, "User not found")
        ELSE IF listing = <<>>
        THEN Abort(UploadStart, 404, "Listing not found")
        ELSE IF listing[1].user_id # current_user_id
        THEN Abort(UploadStart, 403, "Unauthorized: You do not own this listing")
        ELSE IF uploaded_files = <<>>
        THEN Abort(UploadStart, 400, "No file part in the request")
        ELSE UploadLoop(listing_id, uploaded_files, save_fails_at, 1, UploadStart)

\* POST /listings/<listing_id>/media
\* mutant: the rows flushed so far are committed however the request ends
UploadCommitPartial(out) == out.rows

\* db.session.commit() after the loop; any other exit leaves the flushed rows
\* uncommitted and the session is discarded with the request
UploadCommit(out) == IF out.status = 201 THEN out.rows ELSE media

upload_listing_media(current_user_id, listing_id, uploaded_files, save_fails_at) ==
    \E out \in {UploadOutcome(current_user_id, listing_id, uploaded_files, save_fails_at)} :
        /\ media' = UploadCommit(out)
        /\ files' = out.disk
        /\ response' = [Answer("upload", out.status, out.message, current_user_id, listing_id)
                          EXCEPT !.created = IF out.status = 201 THEN out.created ELSE <<>>,
                                 !.saved = Len(out.created),
                                 !.rejected = out.rejected]
        /\ UNCHANGED <<users, listings>>

\* ---------------------------------------------------------- media deletion
\* what the handler finds at media_path: remove_ok says that os.remove does
\* not raise OSError
FileCase(media_path, remove_ok) ==
    IF media_path \notin files THEN "absent"
    ELSE IF remove_ok THEN "removed" ELSE "oserror"

\* mutant: a failed file removal keeps the row
DeleteRowUnlessError(rows, media_item, file_case) ==
    IF file_case = "oserror" THEN rows ELSE rows \ {media_item}

\* db.session.delete(media_item); db.session.commit()
DeleteRow(rows, media_item, file_case) == rows \ {media_item}

\* the whole handler's outcome
DeleteOutcome(current_user_id, media_id, remove_ok) ==
    LET found == GetMedia(media_id)
        media_item == found[1]
        listing == GetListing(media_item.listing_id)
        media_path == MediaPath(media_item.listing_id, media_item.media_type, media_item.filename)
        file_case == FileCase(media_path, remove_ok)
        Reply(status, message, listing_id) ==
            [status |-> status, message |-> message, listing_id |-> listing_id,
             rows |-> media, disk |-> files, file_case |-> "none"]
    IN  IF found = <<>>
        THEN Reply(404, "Media not found", 0)
        ELSE IF listing = <<>>
        THEN Reply(404, "Associated listing not found", media_item.listing_id)
        ELSE IF listing[1].user_id # current_user_id
        THEN Reply(403, "Unauthorized: You can only delete media from your own listings",
                   media_item.listing_id)
        ELSE [Reply(204, "Media deleted successfully", media_item.listing_id)
                EXCEPT !.disk = IF file_case = "removed" THEN files \ {media_path} ELSE files,
                       !.rows = DeleteRow(media, media_item, file_case),
                       !.file_case = file_case]

\* DELETE /media/<media_id>
delete_media(current_user_id, media_id, remove_ok) ==
    \E out \in {DeleteOutcome(current_user_id, media_id, remove_ok)} :
        /\ media' = out.rows
        /\ files' = out.disk
        /\ response' = [Answer("delete_media", out.status, out.message, current_user_id,
                               out.listing_id)
                          EXCEPT !.media_id = media_id, !.file_case = out.file_case]
        /\ UNCHANGED <<users, listings>>

\* ------------------------------------------------------------- media order
\* listing_media.get(media_id) with the check that the item is the listing's
\* mutant: the lookup is keyed on the id alone
LookupAnyListing(rows, listing_id, media_id) == {m \in rows : m.id = media_id}

Lookup(rows, listing_id, media_id) ==
    {m \in rows : m.listing_id = listing_id /\ m.id = media_id}

\* mutant: every item found is written and counted
NeedsUpdateAlways(media_item, index) == TRUE

\* if media_item.order != index
NeedsUpdate(media_item, index) == media_item.order # Some(index)

\* mutant: the loop ends by clearing the order of the media it was not given
RECURSIVE OrderLoopClearsRest(_, _, _, _, _, _)
OrderLoopClearsRest(listing_id, media_ids_ordered, index, rows, count, skipped) ==
    IF index >= Len(media_ids_ordered)
    THEN [rows |-> {IF m.listing_id = listing_id
                       /\ \A i \in DOMAIN media_ids_ordered : media_ids_ordered[i] # m.id
                    THEN [m EXCEPT !.order = NoOrder] ELSE m : m \in rows},
          updated_count |-> count, skipped |-> skipped]
    ELSE LET hit == Lookup(rows, listing_id, media_ids_ordered[index + 1])
             media_item == CHOOSE m \in hit : TRUE
         IN  IF hit = {}
             THEN OrderLoopClearsRest(listing_id, media_ids_ordered, index + 1, rows, count, skipped + 1)
             ELSE IF NeedsUpdate(media_item, index)
             THEN OrderLoopClearsRest(listing_id, media_ids_ordered, index + 1,
                            (rows \ {media_item}) \cup {[media_item EXCEPT !.order = Some(index)]},
                            count + 1, skipped)
             ELSE OrderLoopClearsRest(listing_id, media_ids_ordered, index + 1, rows, count, skipped)

\* the loop over enumerate(media_ids_ordered): rows is the session's view of
\* the Media table, count the running updated_count, skipped the number of
\* ids reported as not of the listing
RECURSIVE OrderLoop(_, _, _, _, _, _)
OrderLoop(listing_id, media_ids_ordered, index, rows, count, skipped) ==
    IF index >= Len(media_ids_ordered)
    THEN [rows |-> rows, updated_count |-> count, skipped |-> skipped]
    ELSE LET hit == Lookup(rows, listing_id, media_ids_ordered[index + 1])
             media_item == CHOOSE m \in hit : TRUE
         IN  IF hit = {}
             THEN OrderLoop(listing_id, media_ids_ordered, index + 1, rows, count, skipped + 1)
             ELSE IF NeedsUpdate(media_item, index)
             THEN OrderLoop(listing_id, media_ids_ordered, index + 1,
                            (rows \ {media_item}) \cup {[media_item EXCEPT !.order = Some(index)]},
                            count + 1, skipped)
             ELSE OrderLoop(listing_id, media_ids_ordered, index + 1, rows, count, skipped)

\* mutant: a failed commit keeps the orders written so far
OrderOutcomeNoRollback(current_user_id, listing_id, body_kind, media_ids_ordered, commit_ok) ==
    LET listing == GetListing(listing_id)
        done == OrderLoop(listing_id, media_ids_ordered, 0, media, 0, 0)
        Reply(status, message) ==
            [status |-> status, message |-> message, rows |-> media,
             updated_count |-> 0, skipped |-> 0]
    IN  IF current_user_id \notin users
        THEN Reply(404, "User not found")
        ELSE IF listing = <<>>
        THEN Reply(404, "Listing not found")
        ELSE IF listing[1].user_id # current_user_id
        THEN Reply(403, "Unauthorized: You do not own this listing")
        ELSE IF body_kind = "no_media_ids"
        THEN Reply(400, "Missing required field: media_ids")
        ELSE IF body_kind = "not_a_list"
        THEN Reply(400, "Invalid data type for media_ids: must be a list")
        ELSE IF body_kind = "not_all_int"
        THEN Reply(400, "Invalid data type in media_ids: all elements must be integers")
        ELSE IF ~commit_ok
        THEN [Reply(500, "Internal Server Error: Could not update media order.")
                EXCEPT !.rows = done.rows, !.skipped = done.skipped]
        ELSE [Reply(200, "Media order updated successfully.")
                EXCEPT !.rows = done.rows, !.updated_count = done.updated_count,
                       !.skipped = done.skipped]

\* the whole handler's outcome; body_kind is how the JSON body is formed,
\* commit_ok whether db.session.commit() succeeds
OrderOutcome(current_user_id, listing_id, body_kind, media_ids_ordered, commit_ok) ==
    LET listing == GetListing(listing_id)
        done == OrderLoop(listing_id, media_ids_ordered, 0, media, 0, 0)
        Reply(status, message) ==
            [status |-> status, message |-> message, rows |-> media,
             updated_count |-> 0, skipped |-> 0]
    IN  IF current_user_id \notin users
        THEN Reply(404, "User not found")
        ELSE IF listing = <<>>
        THEN Reply(404, "Listing not found")
        ELSE IF listing[1].user_id # current_user_id
        THEN Reply(403, "Unauthorized: You do not own this listing")
        ELSE IF body_kind = "no_media_ids"
        THEN Reply(400, "Missing required field: media_ids")
        ELSE IF body_kind = "not_a_list"
        THEN Reply(400, "Invalid data type for media_ids: must be a list")
        ELSE IF body_kind = "not_all_int"
        THEN Reply(400, "Invalid data type in media_ids: all elements must be integers")
        ELSE IF ~commit_ok
        THEN [Reply(500, "Internal Server Error: Could not update media order.")
                EXCEPT !.skipped = done.skipped]
        ELSE [Reply(200, "Media order updated successfully.")
                EXCEPT !.rows = done.rows, !.updated_count = done.updated_count,
                       !.skipped = done.skipped]

\* PUT /listings/<listing_id>/media/order
media_order(current_user_id, listing_id, body_kind, media_ids_ordered, commit_ok) ==
    \E out \in {OrderOutcome(current_user_id, listing_id, body_kind, media_ids_ordered, commit_ok)} :
        /\ media' = out.rows
        /\ response' = [Answer("media_order", out.status, out.message, current_user_id, listing_id)
                          EXCEPT !.updated_count = out.updated_count, !.skipped = out.skipped]
        /\ UNCHANGED <<users, listings, files>>

\* ------------------------------------------------------------------ inputs
\* the media entries a client may put in the body of POST /listings: one
\* that lacks a required key, and complete ones with a client-chosen order
ClientMediaData ==
    {[complete |-> FALSE, order |-> NoOrder]}
        \cup {[complete |-> TRUE, order |-> o] : o \in {NoOrder} \cup {Some(n) : n \in 0..MaxClientOrder}}

ListsOf(S, n) == UNION {[1..k -> S] : k \in 0..n}

\* bodies of a reorder request: well formed with a list of integers, or not
OrderBodies(ids, n) ==
    {[kind |-> "list_of_int", media_ids |-> l] : l \in ListsOf(ids, n)}
        \cup {[kind |-> k, media_ids |-> <<>>] : k \in {"no_media_ids", "not_a_list", "not_all_int"}}

\* names of uploaded files: an allowed image, a disallowed extension
FileNames == {<<"x", Dot, "png">>, <<"x", Dot, "txt">>}

\* and also: a name of dots and extension only, an empty name
OwnerFileNames ==
    FileNames \cup {<<Dot, "png">>, <<>>}

\* the tables stay within the bounds after the step
Within(max_users, max_listings, max_media, max_disk, max_order) ==
    /\ users' \subseteq 1..max_users
    /\ \A l \in listings' : l.id <= max_listings
    /\ Cardinality(media') <= max_media
    /\ \A m \in media' : m.id <= max_media
    /\ Cardinality(files') <= max_disk
    /\ \A m \in media' : IF m.order = NoOrder THEN TRUE ELSE m.order[1] <= max_order

\* Spec: requests of two identities, whose access tokens outlive their User
\* rows, on two listings
Bound == Within(MaxUsers, MaxListings, MaxMedia, MaxDisk, MaxOrder)
UserIds == 1..MaxUsers
ListingIds == 1..MaxListings
MediaIds == 1..MaxMedia
ClientLists == ListsOf(ClientMediaData, MaxClientMedia)
FileLists == ListsOf(FileNames, MaxFiles)
Bodies == OrderBodies(MediaIds, MaxIds)

Next ==
    \/ register /\ Bound /\ UNCHANGED inflight
    \/ \E u \in UserIds : delete_user(u) /\ UNCHANGED inflight
    \/ \E u \in UserIds, ok \in BOOLEAN, ml \in ClientLists : create_listing(u, ok, ml) /\ Bound /\ UNCHANGED inflight
    \/ \E u \in UserIds, l \in ListingIds : delete_listing(u, l) /\ UNCHANGED inflight
    \/ \E u \in UserIds, l \in ListingIds, fl \in FileLists :
           \E k \in 0..Len(fl) : upload_listing_media(u, l, fl, k) /\ Bound /\ UNCHANGED inflight
    \/ \E u \in UserIds, m \in MediaIds, ok \in BOOLEAN : delete_media(u, m, ok) /\ UNCHANGED inflight
    \/ \E u \in UserIds, l \in ListingIds, b \in Bodies, ok \in BOOLEAN :
           media_order(u, l, b.kind, b.media_ids, ok) /\ Bound /\ UNCHANGED inflight

Spec == Init /\ [][Next]_vars

\* SpecOwner: the requests of one identity on its listing
OwnerBound == Within(1, OwnerListings, OwnerMedia, OwnerDisk, OwnerOrder)
OwnerListingIds == 1..OwnerListings
OwnerMediaIds == 1..OwnerMedia
OwnerClientLists == ListsOf(ClientMediaData, OwnerClientMedia)
OwnerFileLists == ListsOf(OwnerFileNames, OwnerFiles)
OwnerBodies == OrderBodies(OwnerMediaIds, OwnerIds)

NextOwner ==
    \/ register /\ OwnerBound /\ UNCHANGED inflight
    \/ delete_user(1) /\ UNCHANGED inflight
    \/ \E ok \in BOOLEAN, ml \in OwnerClientLists : create_listing(1, ok, ml) /\ OwnerBound /\ UNCHANGED inflight
    \/ \E l \in OwnerListingIds : delete_listing(1, l) /\ UNCHANGED inflight
    \/ \E l \in OwnerListingIds, fl \in OwnerFileLists :
           \E k \in 0..Len(fl) : upload_listing_media(1, l, fl, k) /\ OwnerBound /\ UNCHANGED inflight
    \/ \E m \in OwnerMediaIds, ok \in BOOLEAN : delete_media(1, m, ok) /\ UNCHANGED inflight
    \/ \E l \in OwnerListingIds, b \in OwnerBodies, ok \in BOOLEAN :
           media_order(1, l, b.kind, b.media_ids, ok) /\ OwnerBound /\ UNCHANGED inflight

SpecOwner == Init /\ [][NextOwner]_vars

\* ------------------------------------------------- requests side by side
\* Two workers serve requests of the owner on one database. A handler is cut
\* where it reads or writes the database: between two cuts the other worker
\* may run. The database is SQLite (config.py): reads see committed rows and
\* the session's own flushed rows; the first flush of a transaction takes the
\* write lock, which commit or rollback releases, and a writer that finds the
\* lock taken waits for it. Foreign keys are not enforced.
RaceListings == 1
RaceMedia == 2
RaceDisk == 2
RaceOrder == 2
RaceFiles == 1
RaceIds == 2

\* no other worker holds the write lock
LockFree(slot) == \A s \in Slots \ {slot} : inflight[s].flushed = {}

\* the worker's request is over: its transaction is closed
Finish(slot, created) ==
    [inflight EXCEPT ![slot] = [Idle EXCEPT !.pc = "done",
                                            !.op = inflight[slot].op,
                                            !.principal = inflight[slot].principal,
                                            !.listing_id = inflight[slot].listing_id,
                                            !.created = created]]

\* upload_listing_media up to the loop: the user, listing and owner lookups
\* and the presence of files
upload_begin(slot, current_user_id, listing_id, uploaded_files) ==
    /\ inflight[slot].pc \in {"idle", "done"}
    /\ \E out \in {UploadOutcome(current_user_id, listing_id, <<>>, 0)} :
           IF out.message = "No file part in the request" /\ uploaded_files # <<>>
           THEN /\ inflight' = [inflight EXCEPT ![slot] =
                                   [Idle EXCEPT !.pc = "run", !.op = "upload",
                                                !.principal = current_user_id,
                                                !.listing_id = listing_id,
                                                !.todo = uploaded_files]]
                /\ UNCHANGED response
           ELSE /\ response' = Answer("upload", out.status, out.message, current_user_id, listing_id)
                /\ inflight' = [inflight EXCEPT ![slot] =
                                   [Idle EXCEPT !.pc = "done", !.op = "upload",
                                                !.principal = current_user_id,
                                                !.listing_id = listing_id]]
    /\ UNCHANGED <<users, listings, media, files>>

\* one turn of the loop up to the Media object: the name and type checks, the
\* file written, the maximum order read, the object built
upload_file(slot, save_ok) ==
    LET r == inflight[slot]
        st == [UploadStart EXCEPT !.rows = media \cup r.flushed]
    IN  /\ r.pc = "run" /\ r.op = "upload"
        /\ r.pending = <<>> /\ r.todo # <<>>
        /\ \E out \in {UploadFile(r.listing_id, Head(r.todo), save_ok, st)} :
               IF out.status = 0
               THEN /\ files' = out.disk
                    /\ inflight' = [inflight EXCEPT
                                       ![slot].todo = Tail(r.todo),
                                       ![slot].pending = <<CHOOSE m \in out.rows \ st.rows : TRUE>>]
                    /\ UNCHANGED response
               ELSE /\ files' = out.disk
                    /\ inflight' = Finish(slot, <<>>)
                    /\ response' = [Answer("upload", out.status, out.message, r.principal, r.listing_id)
                                      EXCEPT !.saved = Len(r.created), !.rejected = out.rejected]
        /\ UNCHANGED <<users, listings, media>>

\* mutant: the order is computed again from the table when the row is inserted
FlushedRowFresh(new_media, rows) ==
    [new_media EXCEPT !.id = NextId({m.id : m \in rows}),
                      !.order = Some(NewOrder(rows, new_media.listing_id))]

\* the row db.session.flush() inserts for the Media object: its order is the
\* one computed when the object was built, its id the database's next
FlushedRow(new_media, rows) ==
    [new_media EXCEPT !.id = NextId({m.id : m \in rows})]

\* db.session.add(new_media); db.session.flush()
upload_flush(slot) ==
    LET r == inflight[slot]
        row == FlushedRow(r.pending[1], media \cup r.flushed)
    IN  /\ r.pc = "run" /\ r.op = "upload"
        /\ r.pending # <<>>
        /\ LockFree(slot)
        /\ inflight' = [inflight EXCEPT ![slot].pending = <<>>,
                                        ![slot].flushed = r.flushed \cup {row},
                                        ![slot].created = Append(r.created, row.id)]
        /\ UNCHANGED <<users, listings, media, files, response>>

\* db.session.commit() after the loop, and the 201 answer
upload_commit(slot) ==
    LET r == inflight[slot]
    IN  /\ r.pc = "run" /\ r.op = "upload"
        /\ r.pending = <<>> /\ r.todo = <<>>
        /\ media' = media \cup r.flushed
        /\ inflight' = Finish(slot, r.created)
        /\ response' = [Answer("upload", 201, "Files uploaded successfully!", r.principal, r.listing_id)
                          EXCEPT !.created = r.created, !.saved = Len(r.created)]
        /\ UNCHANGED <<users, listings, files>>

\* media_order up to the loop: the lookups, the body checks, and the
\* listing's media loaded into the session
order_begin(slot, current_user_id, listing_id, body_kind, media_ids_ordered) ==
    /\ inflight[slot].pc \in {"idle", "done"}
    /\ \E out \in {OrderOutcome(current_user_id, listing_id, body_kind, media_ids_ordered, TRUE)} :
           IF out.status = 200
           THEN /\ inflight' = [inflight EXCEPT ![slot] =
                                   [Idle EXCEPT !.pc = "run", !.op = "media_order",
                                                !.principal = current_user_id,
                                                !.listing_id = listing_id,
                                                !.media_ids = media_ids_ordered,
                                                !.snapshot = {m \in media : m.listing_id = listing_id}]]
                /\ UNCHANGED response
           ELSE /\ response' = Answer("media_order", out.status, out.message, current_user_id, listing_id)
                /\ inflight' = [inflight EXCEPT ![slot] =
                                   [Idle EXCEPT !.pc = "done", !.op = "media_order",
                                                !.principal = current_user_id,
                                                !.listing_id = listing_id]]
    /\ UNCHANGED <<users, listings, media, files>>

\* the UPDATE statements of the commit: one per loaded object whose order
\* the loop changed, by primary key
ApplyOrders(rows, changed) ==
    {IF \E c \in changed : c.id = m.id
     THEN [m EXCEPT !.order = (CHOOSE c \in changed : c.id = m.id).order]
     ELSE m : m \in rows}

\* the loop over the loaded objects and db.session.commit(); an UPDATE that
\* finds no row raises and the except branch rolls back and answers 500
order_commit(slot, commit_ok) ==
    LET r == inflight[slot]
        done == OrderLoop(r.listing_id, r.media_ids, 0, r.snapshot, 0, 0)
        changed == done.rows \ r.snapshot
    IN  /\ r.pc = "run" /\ r.op = "media_order"
        /\ LockFree(slot)
        /\ inflight' = Finish(slot, <<>>)
        /\ IF commit_ok /\ \A c \in changed : \E m \in media : m.id = c.id
           THEN /\ media' = ApplyOrders(media, changed)
                /\ response' = [Answer("media_order", 200, "Media order updated successfully.",
                                       r.principal, r.listing_id)
                                  EXCEPT !.updated_count = done.updated_count,
                                         !.skipped = done.skipped]
           ELSE /\ media' = media
                /\ response' = [Answer("media_order", 500,
                                       "Internal Server Error: Could not update media order.",
                                       r.principal, r.listing_id)
                                  EXCEPT !.skipped = done.skipped]
        /\ UNCHANGED <<users, listings, files>>

RaceBound ==
    /\ Within(1, RaceListings, RaceMedia, RaceDisk, RaceOrder)
    /\ \A s \in Slots : \A m \in inflight'[s].flushed : m.id <= RaceMedia

RaceFileLists == ListsOf(FileNames, RaceFiles)
RaceBodies == OrderBodies(1..RaceMedia, RaceIds)

NextRace ==
    \/ register /\ LockFree(0) /\ UNCHANGED inflight /\ RaceBound
    \/ create_listing(1, TRUE, <<>>) /\ LockFree(0) /\ UNCHANGED inflight /\ RaceBound
    \/ \E l \in 1..RaceListings : delete_listing(1, l) /\ LockFree(0) /\ UNCHANGED inflight
    \/ \E s \in Slots, l \in 1..RaceListings, fl \in RaceFileLists :
           upload_begin(s, 1, l, fl)
    \/ \E s \in Slots, ok \in BOOLEAN : upload_file(s, ok) /\ RaceBound
    \/ \E s \in Slots : upload_flush(s) /\ RaceBound
    \/ \E s \in Slots : upload_commit(s) /\ RaceBound
    \/ \E s \in Slots, l \in 1..RaceListings, b \in RaceBodies :
           order_begin(s, 1, l, b.kind, b.media_ids)
    \/ \E s \in Slots, ok \in BOOLEAN : order_commit(s, ok) /\ RaceBound

SpecRace == Init /\ [][NextRace]_vars
\* ------------------------------------------------------------------ claims
ListingMedia(rows, listing_id) == {m \in rows : m.listing_id = listing_id}

PathOf(m) == MediaPath(m.listing_id, m.media_type, m.filename)

\* the largest order among the rows, -1 when none of them has an order
LargestOrder(rows) ==
    LET orders == {m.order[1] : m \in {r \in rows : r.order # NoOrder}}
    IN  IF orders = {} THEN -1 ELSE Max(orders)

C2_NonOwnerForbidden ==
    [][/\ (/\ response'.op \in {"upload", "media_order"}
           /\ response'.principal \in users
           /\ \E l \in listings : l.id = response'.listing_id /\ l.user_id # response'.principal)
          => (response'.status = 403 /\ UNCHANGED <<users, listings, media, files>>)
       /\ (/\ response'.op = "delete_media"
           /\ response'.principal \in users
           /\ \E m \in media : /\ m.id = response'.media_id
                               /\ \E l \in listings : l.id = m.listing_id
                                                      /\ l.user_id # response'.principal)
          => (response'.status = 403 /\ UNCHANGED <<users, listings, media, files>>)]_vars

\* a user who exists was refused an upload to another identity's listing that
\* holds media
C2_Witness ==
    /\ response.op = "upload"
    /\ response.status = 403
    /\ response.principal \in users
    /\ ListingMedia(media, response.listing_id) # {}

\* C3, as stated: with no request in flight, a Media row exists if and only
\* if its file exists at root/listing_id/media_type/filename.
C3_RowIffFile ==
    /\ \A m \in media : PathOf(m) \in files
    /\ \A f \in files : \E m \in media : PathOf(m) = f

\* C4: when the owner of the listing deletes a media item the answer is 204
\* and the row is gone, whether the file was removed, was absent already, or
\* its removal failed with an OS error; the file is gone only when removed.
C4_OwnerDeleteRemovesRow ==
    [][(/\ response'.op = "delete_media"
        /\ \E m \in media : /\ m.id = response'.media_id
                            /\ \E l \in listings : l.id = m.listing_id
                                                   /\ l.user_id = response'.principal)
          => LET m == CHOOSE x \in media : x.id = response'.media_id
             IN  /\ response'.status = 204
                 /\ media' = media \ {m}
                 /\ response'.file_case \in {"removed", "absent", "oserror"}
                 /\ response'.file_case = "absent" <=> PathOf(m) \notin files
                 /\ files' = IF response'.file_case = "removed" THEN files \ {PathOf(m)} ELSE files]_vars

\* the owner deleted a media item whose file could not be removed: the file
\* is still on disk and no row names it
C4_Witness ==
    /\ response.op = "delete_media"
    /\ response.status = 204
    /\ response.file_case = "oserror"
    /\ \E f \in files : f.listing_id = response.listing_id /\ \A m \in media : PathOf(m) # f

\* the orderings of a set without repetition
Perms(S) ==
    {seq \in [1..Cardinality(S) -> S] : \A i, j \in DOMAIN seq : i # j => seq[i] # seq[j]}

\* C5: when the owner reorders a listing with a full permutation of its media
\* ids, every item ends with its 0-based position as order and the reported
\* count is the number of items whose order differed from that position.
C5_PermutationGivesRanks ==
    \A l \in listings : l.user_id \in users =>
        LET before == ListingMedia(media, l.id)
        IN  \A seq \in Perms({m.id : m \in before}) :
                LET out == OrderOutcome(l.user_id, l.id, "list_of_int", seq, TRUE)
                IN  /\ out.status = 200
                    /\ {m.id : m \in out.rows} = {m.id : m \in media}
                    /\ Cardinality(out.rows) = Cardinality(media)
                    /\ \A i \in DOMAIN seq :
                           \E m \in out.rows : m.id = seq[i] /\ m.order = Some(i - 1)
                    /\ out.updated_count =
                           Cardinality({i \in DOMAIN seq :
                               \E m \in before : m.id = seq[i] /\ m.order # Some(i - 1)})

\* the owner has swapped the two media of a listing: both were rewritten
C5_Witness ==
    /\ response.op = "media_order"
    /\ response.status = 200
    /\ response.updated_count = 2
    /\ response.skipped = 0
    /\ \E a, b \in media :
           /\ a.id < b.id
           /\ a.order = Some(1)
           /\ b.order = Some(0)
           /\ ListingMedia(media, response.listing_id) = {a, b}

\* id sequences that may name media of other listings and media that do not exist
StrayIdLists == ListsOf(1..(MaxMedia + 1), MaxIds)

\* C6: a reorder by the owner whose sequence holds an id that does not exist
\* or is of another listing skips that id and answers 200 when the commit
\* succeeds; the other ids of the sequence get their positions, and no row of
\* another listing changes in any field.
C6_StrayIdsSkipped ==
    \A l \in listings : l.user_id \in users =>
        LET own == {m.id : m \in ListingMedia(media, l.id)}
        IN  \A seq \in {q \in StrayIdLists : \E i \in DOMAIN q : q[i] \notin own} :
                LET out == OrderOutcome(l.user_id, l.id, "list_of_int", seq, TRUE)
                    Last(id) == Max({i \in DOMAIN seq : seq[i] = id})
                IN  /\ out.status = 200
                    /\ out.skipped = Cardinality({i \in DOMAIN seq : seq[i] \notin own})
                    /\ \A m \in media : m.listing_id # l.id => m \in out.rows
                    /\ \A m \in ListingMedia(media, l.id) :
                           IF \E i \in DOMAIN seq : seq[i] = m.id
                           THEN [m EXCEPT !.order = Some(Last(m.id) - 1)] \in out.rows
                           ELSE m \in out.rows
                    /\ Cardinality(out.rows) = Cardinality(media)

\* a reorder answered 200 after skipping an id and rewriting another, while a
\* second listing holds media
C6_Witness ==
    /\ response.op = "media_order"
    /\ response.status = 200
    /\ response.skipped > 0
    /\ response.updated_count > 0
    /\ \E m \in media : m.listing_id # response.listing_id

\* C7: after a listing is deleted by its owner no Media row of it remains;
\* after a user is deleted no Listing of that user and no Media row of those
\* listings remains; every other row is untouched.
C7_CascadeRemovesRows ==
    [][/\ (response'.op = "delete_listing" /\ response'.status = 204) =>
              /\ listings' = {l \in listings : l.id # response'.listing_id}
              /\ media' = {m \in media : m.listing_id # response'.listing_id}
              /\ users' = users
       /\ (response'.op = "delete_user" /\ response'.status = 204) =>
              LET theirs == {l.id : l \in {x \in listings : x.user_id = response'.principal}}
              IN  /\ users' = users \ {response'.principal}
                  /\ listings' = {l \in listings : l.user_id # response'.principal}
                  /\ media' = {m \in media : m.listing_id \notin theirs}
                  /\ \A m \in media' : \E l \in listings' : l.id = m.listing_id]_vars

\* a user was deleted whose listings held media, and media of another user's
\* listing are still there
C7_Witness ==
    /\ response.op = "delete_user"
    /\ response.status = 204
    /\ response.cascaded > 0
    /\ media # {}

\* C8, as stated: after delete_listing succeeds no file remains for any media
\* item the listing had.
C8_ListingDeleteRemovesFiles ==
    [][(response'.op = "delete_listing" /\ response'.status = 204) =>
          \A m \in ListingMedia(media, response'.listing_id) : PathOf(m) \notin files']_vars

\* a non-empty name whose extension is not of the allow-list
Disallowed(file) == file # <<>> /\ ~allowed_file(file)

\* a name the loop accepts: allow-listed and still with a stem after
\* secure_filename
Accepted(file) ==
    /\ file # <<>>
    /\ allowed_file(file)
    /\ LastDot(secure_filename(file)) # 0

\* requests of the owner whose first disallowed file stands at position i,
\* every file before it being accepted
OffendingAt(uploaded_files, i) ==
    /\ i \in DOMAIN uploaded_files
    /\ Disallowed(uploaded_files[i])
    /\ \A j \in 1..(i - 1) : Accepted(uploaded_files[j])

\* C9, as stated: an upload holding a file with a disallowed extension is
\* answered 415 and creates no file and no row, wherever that file stands.
C9_RejectedUploadLeavesNothing ==
    \A l \in listings : l.user_id \in users =>
        \A uploaded_files \in OwnerFileLists : \A i \in DOMAIN uploaded_files :
            OffendingAt(uploaded_files, i) =>
                LET out == UploadOutcome(l.user_id, l.id, uploaded_files, 0)
                IN  /\ out.status = 415
                    /\ UploadCommit(out) = media
                    /\ out.disk = files

\* C9, amended: an upload by the owner whose first disallowed file stands at
\* position i after i-1 accepted and stored files is answered 415 and commits
\* no row; no file is written for the disallowed file or any later one, but
\* the i-1 files stored before it stay on disk, so the disk is unchanged only
\* when the disallowed file comes first.
C9_RejectedUploadKeepsEarlierFiles ==
    \A l \in listings : l.user_id \in users =>
        \A uploaded_files \in OwnerFileLists : \A i \in DOMAIN uploaded_files :
            OffendingAt(uploaded_files, i) =>
                LET out == UploadOutcome(l.user_id, l.id, uploaded_files, 0)
                IN  /\ out.status = 415
                    /\ out.rejected = uploaded_files[i]
                    /\ UploadCommit(out) = media
                    /\ files \subseteq out.disk
                    /\ Cardinality(out.disk \ files) = i - 1
                    /\ \A f \in out.disk \ files :
                           f.listing_id = l.id /\ \A m \in UploadCommit(out) : PathOf(m) # f

\* an upload was answered 415 for a disallowed second file after the first
\* had been stored: its file is on disk and no row names it
C9_Witness ==
    /\ response.op = "upload"
    /\ response.status = 415
    /\ response.rejected # <<>>
    /\ response.saved = 1
    /\ \E f \in files : f.listing_id = response.listing_id /\ \A m \in media : PathOf(m) # f

\* the allow-listed extensions in the letter cases the uploads may carry
AllowListedNames ==
    {<<"x", Dot, e>> : e \in {"png", "PNG", "jpg", "JPG", "jpeg", "JPEG", "gif", "GIF",
                               "mp4", "MP4", "mov", "MOV", "Mov", "avi", "AVI"}}

\* the category and MIME type the specification gives an extension
ExpectedCategory(ext) == IF ext \in {"png", "jpg", "jpeg", "gif"} THEN "photo" ELSE "video"

ExpectedMime(ext) ==
    CASE ext = "mov" -> "video/quicktime"
      [] ext = "jpg" -> "image/jpeg"
      [] ext \in {"png", "jpeg", "gif"} -> "image/" \o ext
      [] OTHER -> "video/" \o ext

\* C10, as stated: every allow-listed extension in any letter case is
\* accepted, classified photo with an image MIME type or video with a video
\* MIME type (mov as video/quicktime), and the stored row's media_type and
\* the directory segment of the file are that category.
C10_CategoryPhotoOrVideo ==
    \A l \in listings : l.user_id \in users =>
        \A file \in AllowListedNames :
            LET out == UploadOutcome(l.user_id, l.id, <<file>>, 0)
                ext == Str(Lower(RSplitExt(file)))
            IN  /\ out.status = 201
                /\ \A m \in out.rows \ media :
                       /\ m.mimetype = ExpectedMime(ext)
                       /\ m.media_type = ExpectedCategory(ext)
                /\ \A f \in out.disk \ files : f.media_type = ExpectedCategory(ext)

\* names uuid4 can have produced within the explored tables
MaxNames == 8

GeneratedStems == {"u" \o ToString(k) : k \in 1..MaxNames}

\* <identifier>.<extension> as upload_listing_media composes it
IsGenerated(filename) ==
    /\ Len(filename) = 3
    /\ filename[1] \in GeneratedStems
    /\ filename[2] = Dot
    /\ filename[3] \in ALLOWED_EXTENSIONS

\* C11, as stated: in every reachable state every Media row was created by
\* the upload operation, and its stored filename is a system-generated
\* identifier followed by the extension, never a client-supplied name.
C11_FilenamesGenerated ==
    \A m \in media :
        /\ IsGenerated(m.filename)
        /\ m.media_type \in {"image", "video"}
        /\ m.order # NoOrder

\* C12: an upload commits its rows all or nothing. When it answers 201 the
\* rows of all its files are added together, one per file and each with its
\* file on disk; when a file is rejected or cannot be stored no row is
\* committed, and exactly the files written before the failing file stay on
\* disk.
C12_UploadAllOrNothing ==
    [][(response'.op = "upload") =>
          /\ files \subseteq files'
          /\ Cardinality(files' \ files) = response'.saved
          /\ IF response'.status = 201
             THEN /\ media \subseteq media'
                  /\ Cardinality(media' \ media) = response'.saved
                  /\ \A m \in media' \ media : PathOf(m) \in files' \ files
                  /\ \A f \in files' \ files : \E m \in media' \ media : PathOf(m) = f
             ELSE /\ media' = media
                  /\ response'.created = <<>>
                  /\ \A f \in files' \ files : \A m \in media' : PathOf(m) # f]_vars

\* the second file of a request could not be stored: the request answered
\* 500, the first file is on disk and no row of the request was committed
C12_Witness ==
    /\ response.op = "upload"
    /\ response.status = 500
    /\ response.message = "StorageError"
    /\ response.saved = 1
    /\ \E f \in files : f.listing_id = response.listing_id /\ \A m \in media : PathOf(m) # f

\* C13: within one successful upload the first file gets the largest order
\* of the listing's existing media (-1 when there is none) plus 1, and the
\* i-th file of the request, in the order submitted, gets that value plus i-1.
C13_OrdersConsecutiveInSubmission ==
    [][(response'.op = "upload" /\ response'.status = 201) =>
          LET K == LargestOrder(ListingMedia(media, response'.listing_id))
          IN  \A i \in DOMAIN response'.created :
                  \E m \in media' \ media :
                      /\ m.id = response'.created[i]
                      /\ m.listing_id = response'.listing_id
                      /\ m.order = Some(K + i)]_vars

\* two files were uploaded in one request to a listing whose largest order
\* was above 0: the second follows the first
C13_Witness ==
    /\ response.op = "upload"
    /\ response.status = 201
    /\ Len(response.created) = 2
    /\ \E a, b \in media :
           /\ a.id = response.created[1]
           /\ b.id = response.created[2]
           /\ a.order # NoOrder /\ b.order # NoOrder
           /\ a.order[1] > 1
           /\ b.order[1] = a.order[1] + 1

\* the error the precondition list gives a request, "" when every precondition
\* holds
FirstFailedPrecondition(current_user_id, listing_id, uploaded_files) ==
    LET listing == GetListing(listing_id)
    IN  IF current_user_id \notin users THEN "NotFound(user)"
        ELSE IF listing = <<>> THEN "NotFound(listing)"
        ELSE IF listing[1].user_id # current_user_id THEN "Forbidden"
        ELSE IF uploaded_files = <<>> \/ \E i \in DOMAIN uploaded_files : uploaded_files[i] = <<>>
        THEN "BadRequest"
        ELSE ""

\* the error kind of an answer of upload_listing_media
ErrorKind(status, message) ==
    CASE status = 404 /\ message = "User not found" -> "NotFound(user)"
      [] status = 404 /\ message = "Listing not found" -> "NotFound(listing)"
      [] status = 403 -> "Forbidden"
      [] status = 400 -> "BadRequest"
      [] OTHER -> ""

\* C14, as stated: upload stops at the first failing precondition in the
\* order user, listing, owner, files (none, or one with an empty name), with
\* that precondition's error and with no file written and no row created.
C14_PreconditionsBeforeFiles ==
    \A u \in UserIds, l \in ListingIds, uploaded_files \in OwnerFileLists :
        LET failed == FirstFailedPrecondition(u, l, uploaded_files)
            out == UploadOutcome(u, l, uploaded_files, 0)
        IN  failed # "" =>
                /\ ErrorKind(out.status, out.message) = failed
                /\ out.disk = files
                /\ UploadCommit(out) = media

\* C15: when the commit of a reorder fails the request answers 500 and the
\* whole reorder is rolled back: every media row has the order it had before
\* the request, whatever the sequence would have changed.
C15_FailedReorderRolledBack ==
    \A l \in listings : l.user_id \in users =>
        \A seq \in ListsOf(OwnerMediaIds, OwnerIds) :
            LET out == OrderOutcome(l.user_id, l.id, "list_of_int", seq, FALSE)
            IN  /\ out.status = 500
                /\ out.updated_count = 0
                /\ out.rows = media

\* a reorder of a listing with two media, each at the other's position,
\* answered 500
C15_Witness ==
    /\ response.op = "media_order"
    /\ response.status = 500
    /\ response.skipped = 0
    /\ \E a, b \in ListingMedia(media, response.listing_id) :
           a.id < b.id /\ a.order = Some(1) /\ b.order = Some(0)

\* C18, as stated: the updated count of a successful reorder never exceeds
\* the number of media of the listing, for every well-formed sequence of
\* ids, repeated ids included.
C18_CountWithinListing ==
    \A l \in listings : l.user_id \in users =>
        \A seq \in ListsOf(OwnerMediaIds, OwnerIds) :
            LET out == OrderOutcome(l.user_id, l.id, "list_of_int", seq, TRUE)
            IN  out.status = 200 =>
                    out.updated_count <= Cardinality(ListingMedia(media, l.id))

\* C19: a successful reorder changes only the order of media of the target
\* listing that the sequence names: media of the listing it does not name and
\* media of other listings are unchanged, a named row differs from its old
\* self in the order field at most, no row is created or deleted, and users,
\* listings and files are untouched.
C19_ReorderFrame ==
    /\ [](\A l \in listings : l.user_id \in users =>
            \A seq \in ListsOf(MediaIds, MaxIds) :
                LET out == OrderOutcome(l.user_id, l.id, "list_of_int", seq, TRUE)
                    named == {seq[i] : i \in DOMAIN seq}
                IN  /\ out.status = 200
                    /\ Cardinality(out.rows) = Cardinality(media)
                    /\ \A m \in media :
                           IF m.listing_id = l.id /\ m.id \in named
                           THEN \E n \in out.rows : n = [m EXCEPT !.order = n.order]
                           ELSE m \in out.rows)
    /\ [][(response'.op = "media_order" /\ response'.status = 200) =>
             /\ UNCHANGED <<users, listings, files>>
             /\ Cardinality(media') = Cardinality(media)
             /\ \A m \in media :
                    IF m.listing_id = response'.listing_id
                    THEN \E n \in media' : n = [m EXCEPT !.order = n.order]
                    ELSE m \in media']_vars

\* a reorder rewrote one media of a listing that holds a second one with its
\* file on disk
C19_Witness ==
    /\ response.op = "media_order"
    /\ response.status = 200
    /\ response.updated_count = 1
    /\ response.skipped = 0
    /\ Cardinality(ListingMedia(media, response.listing_id)) = 2
    /\ files # {}

\* sequences of ids without repetition
DuplicateFree(seq) == \A i, j \in DOMAIN seq : i # j => seq[i] # seq[j]

\* C20: reorder is idempotent on duplicate-free sequences: applying the same
\* sequence a second time right after the first leaves the rows as the first
\* call left them and counts 0 updates.
C20_ReorderIdempotent ==
    \A l \in listings : l.user_id \in users =>
        \A seq \in {q \in ListsOf(OwnerMediaIds, OwnerIds) : DuplicateFree(q)} :
            LET first == OrderOutcome(l.user_id, l.id, "list_of_int", seq, TRUE)
                second == OrderLoop(l.id, seq, 0, first.rows, 0, 0)
            IN  /\ first.status = 200
                /\ second.rows = first.rows
                /\ second.updated_count = 0
                /\ second.skipped = first.skipped

\* a reorder of a listing with three media found every one of them at the
\* position the sequence gives it, after an earlier reorder had placed them
C20_Witness ==
    /\ response.op = "media_order"
    /\ response.status = 200
    /\ response.updated_count = 0
    /\ response.skipped = 0
    /\ Cardinality(ListingMedia(media, response.listing_id)) = 3
    /\ \E m \in ListingMedia(media, response.listing_id) : m.id = 1 /\ m.order = Some(2)

\* C16: upload reads the largest order and writes the new row in two
\* statements with no lock per listing between them: the row an upload
\* inserts carries the order computed when the maximum was read, whatever
\* another request has committed to the listing since, and the commit adds
\* the rows as they were flushed. Two requests on one listing can therefore
\* leave two rows with the same order (the witness).
C16_OrderFixedAtRead ==
    [][\A s \in Slots :
          /\ (/\ inflight[s].op = "upload" /\ inflight[s].pc = "run"
              /\ inflight[s].pending # <<>>
              /\ inflight'[s].pc = "run" /\ inflight'[s].pending = <<>>)
             => /\ Cardinality(inflight'[s].flushed \ inflight[s].flushed) = 1
                /\ \A row \in inflight'[s].flushed \ inflight[s].flushed :
                       /\ row.order = inflight[s].pending[1].order
                       /\ row.listing_id = inflight[s].listing_id
                       /\ \A m \in media \cup inflight[s].flushed : m.id # row.id
          /\ (/\ inflight[s].op = "upload" /\ inflight[s].pc = "run"
              /\ inflight'[s].pc = "done" /\ response'.status = 201)
             => media' = media \cup inflight[s].flushed]_vars

\* both workers have finished an upload to the same listing, and the row of
\* the one and the row of the other carry the same order
C16_Witness ==
    \E s, t \in Slots :
        /\ s # t
        /\ inflight[s].pc = "done" /\ inflight[s].op = "upload"
        /\ inflight[t].pc = "done" /\ inflight[t].op = "upload"
        /\ \E a, b \in media :
               /\ a.id # b.id
               /\ a.id \in {inflight[s].created[i] : i \in DOMAIN inflight[s].created}
               /\ b.id \in {inflight[t].created[i] : i \in DOMAIN inflight[t].created}
               /\ a.listing_id = b.listing_id
               /\ a.listing_id = inflight[s].listing_id
               /\ a.order = b.order
               /\ \E l \in listings : l.id = a.listing_id

\* C17, as stated: every committed Media row references a listing that
\* exists, in every state reachable by any interleaving of requests.
C17_MediaReferenceListing ==
    \A m \in media : \E l \in listings : l.id = m.listing_id
=============================================================================
